---------------------------- MODULE Spec2Model ----------------------------
(***************************************************************************)
(* Model of the Pod-manifest validator in src/main.go.  The source holds   *)
(* two programs over the same yaml.Node tree:                              *)
(*   - the accumulate-all validator (type Validator, lines 14-406), whose  *)
(*     definitions keep the source's names, and                            *)
(*   - the fail-fast validator (validatePod and callees, lines 408-954),   *)
(*     whose definitions carry the suffix F where a name would clash.      *)
(* Both are run on the same invocation (argument count, file, parsed tree) *)
(* so that their verdicts can be compared state by state.                  *)
(***************************************************************************)
EXTENDS Integers, Sequences, FiniteSets, TLC

(***************************************************************************)
(* yaml.Node: Kind, Tag, Value, Line, Content.                             *)
(***************************************************************************)
Node(kind, tag, value, line, content) ==
    [Kind |-> kind, Tag |-> tag, Value |-> value, Line |-> line, Content |-> content]

\* The zero yaml.Node: what yaml.Unmarshal leaves untouched for an empty input.
ZeroNode == Node("", "", "", 0, <<>>)

Scalar(tag, value, line) == Node("ScalarNode", tag, value, line, <<>>)
Str(value, line) == Scalar("!!str", value, line)
IntN(value, line) == Scalar("!!int", value, line)
Mapping(line, content) == Node("MappingNode", "!!map", "", line, content)
Sequence(line, content) == Node("SequenceNode", "!!seq", "", line, content)
Document(doc) == Node("DocumentNode", "", "", 1, <<doc>>)

(***************************************************************************)
(* Strings: Go strings restricted to ASCII; Char(s, i) is the byte s[i-1]. *)
(***************************************************************************)
Char(s, i) == SubSeq(s, i, i)

Lower == {"a", "b", "c", "d", "e", "f", "g", "h", "i", "j", "k", "l", "m",
          "n", "o", "p", "q", "r", "s", "t", "u", "v", "w", "x", "y", "z"}
Digit == {"0", "1", "2", "3", "4", "5", "6", "7", "8", "9"}
Space == {" ", "\t", "\n", "\r", "\f"}

DigitVal(c) ==
    CASE c = "0" -> 0 [] c = "1" -> 1 [] c = "2" -> 2 [] c = "3" -> 3
      [] c = "4" -> 4 [] c = "5" -> 5 [] c = "6" -> 6 [] c = "7" -> 7
      [] c = "8" -> 8 [] c = "9" -> 9

HasPrefix(s, p) == Len(s) >= Len(p) /\ SubSeq(s, 1, Len(p)) = p

\* strings.LastIndex(s, c) for a one-byte c: 0-based index, -1 when absent.
LastIndex(s, c) ==
    LET at == {i \in 1..Len(s) : Char(s, i) = c}
    IN  IF at = {} THEN -1 ELSE (CHOOSE i \in at : \A j \in at : j <= i) - 1

\* strings.TrimSpace, ASCII white space.
RECURSIVE TrimLeft(_)
TrimLeft(s) == IF Len(s) > 0 /\ Char(s, 1) \in Space THEN TrimLeft(Tail(s)) ELSE s
RECURSIVE TrimRight(_)
TrimRight(s) ==
    IF Len(s) > 0 /\ Char(s, Len(s)) \in Space
    THEN TrimRight(SubSeq(s, 1, Len(s) - 1)) ELSE s
TrimSpace(s) == TrimRight(TrimLeft(s))

\* strconv.Atoi: optional sign, then one or more decimal digits.  The range
\* error of Atoi is out of reach: the inputs hold at most six digits.
RECURSIVE DigitsValue(_, _)
DigitsValue(s, acc) ==
    IF s = "" THEN acc ELSE DigitsValue(Tail(s), acc * 10 + DigitVal(Head(s)))

Atoi(s) ==
    IF s = "" THEN [ok |-> FALSE, val |-> 0]
    ELSE LET signed == Head(s) \in {"-", "+"}
             digits == IF signed THEN Tail(s) ELSE s
         IN  IF digits = "" \/ \E i \in 1..Len(digits) : Char(digits, i) \notin Digit
             THEN [ok |-> FALSE, val |-> 0]
             ELSE [ok |-> TRUE,
                   val |-> IF Head(s) = "-" THEN 0 - DigitsValue(digits, 0)
                           ELSE DigitsValue(digits, 0)]

(***************************************************************************)
(* regexp matching, for the four patterns of the accumulate-all validator. *)
(***************************************************************************)
\* First position at or after i whose byte is not in class (Len(s)+1 if none):
\* the end of a greedy run [class]*.
RECURSIVE RunEnd(_, _, _)
RunEnd(s, i, class) ==
    IF i <= Len(s) /\ Char(s, i) \in class THEN RunEnd(s, i + 1, class) ELSE i

\* The same for a negated class [^...]*.
RECURSIVE RunEndNot(_, _, _)
RunEndNot(s, i, class) ==
    IF i <= Len(s) /\ Char(s, i) \notin class THEN RunEndNot(s, i + 1, class) ELSE i

\* [a-z0-9]+(_[a-z0-9]+)*$ from position i.
RECURSIVE SnakeGroups(_, _)
SnakeGroups(s, i) ==
    LET j == RunEnd(s, i, Lower \cup Digit)
    IN  /\ j > i
        /\ \/ j = Len(s) + 1
           \/ Char(s, j) = "_" /\ SnakeGroups(s, j + 1)

reSnake(s) == SnakeGroups(s, 1)

ImagePrefix == "registry.bigbrother.io/"

reImage(s) ==
    /\ HasPrefix(s, ImagePrefix)
    /\ LET p == Len(ImagePrefix) + 1
           j == RunEndNot(s, p, {":"} \cup Space)
           k == RunEndNot(s, j + 1, {":"} \cup Space)
       IN  /\ j > p
           /\ j <= Len(s) /\ Char(s, j) = ":"
           /\ k > j + 1
           /\ k = Len(s) + 1

reMem(s) ==
    LET j == RunEnd(s, 1, Digit)
    IN  j > 1 /\ SubSeq(s, j, Len(s)) \in {"Gi", "Mi", "Ki"}

reAbs(s) == HasPrefix(s, "/")

validOS == {"linux", "windows"}
validPro == {"TCP", "UDP"}

(***************************************************************************)
(* Helpers of the accumulate-all validator.                                *)
(***************************************************************************)
\* mapify: key -> value node; a later pair overwrites an earlier one with the
\* same key, pairs with a non-scalar key are skipped.
mapify(n) ==
    IF n.Kind # "MappingNode" THEN <<>>
    ELSE LET pairs == {i \in 1..(Len(n.Content) \div 2) :
                          n.Content[2 * i - 1].Kind = "ScalarNode"}
             keys == {n.Content[2 * i - 1].Value : i \in pairs}
             last(k) == CHOOSE i \in pairs :
                           /\ n.Content[2 * i - 1].Value = k
                           /\ \A j \in pairs : n.Content[2 * j - 1].Value = k => j <= i
         IN  [k \in keys |-> n.Content[2 * last(k)]]

Has(m, k) == k \in DOMAIN m

isInt(node) == node.Tag = "!!int" /\ Atoi(node.Value).ok

isString(node) == node.Tag = "!!str"

(***************************************************************************)
(* Helpers of the fail-fast validator.                                     *)
(***************************************************************************)
\* getMapValue: the value of the first pair whose key node's Value equals key.
getMapValue(m, key) ==
    IF m.Kind # "MappingNode" THEN [ok |-> FALSE, node |-> ZeroNode]
    ELSE LET hits == {i \in 1..(Len(m.Content) \div 2) : m.Content[2 * i - 1].Value = key}
         IN  IF hits = {} THEN [ok |-> FALSE, node |-> ZeroNode]
             ELSE [ok |-> TRUE,
                   node |-> m.Content[2 * (CHOOSE i \in hits : \A j \in hits : i <= j)]]

isSnakeCase(s) ==
    /\ s # ""
    /\ \A i \in 0..(Len(s) - 1) :
          LET r == Char(s, i + 1)
          IN  \/ r \in Lower
              \/ r \in Digit
              \/ r = "_" /\ i # 0 /\ i # Len(s) - 1

isValidMemory(s) ==
    IF Len(s) < 3 THEN FALSE
    ELSE LET unit == SubSeq(s, Len(s) - 1, Len(s))
             numPart == SubSeq(s, 1, Len(s) - 2)
         IN  IF unit \notin {"Gi", "Mi", "Ki"} THEN FALSE
             ELSE IF numPart = "" THEN FALSE
             ELSE Atoi(numPart).ok

(***************************************************************************)
(* The accumulate-all validator.  A Validator value v holds what the run   *)
(* has printed (out, in order) and its error counter (errs); every method  *)
(* returns the Validator it leaves behind.                                 *)
(***************************************************************************)
NewValidator == [out |-> <<>>, errs |-> 0]

\* One line of output: "<file>:<line> <msg>" when a line is known, else
\* "<file>: <msg>".
Printed(hasLine, line, msg) == [hasLine |-> hasLine, line |-> line, msg |-> msg]

\* Validator.fail: prints "<file>:<line> <msg>" and counts the error.
fail(v, line, msg) ==
    [out |-> Append(v.out, Printed(TRUE, line, msg)), errs |-> v.errs + 1]

\* Validator.requiredField (no validator calls it; kept for the record).
requiredField(v, node, field) ==
    LET m == mapify(node)
    IN  IF ~Has(m, field)
        THEN [v |-> fail(v, node.Line, field \o " is required"), ok |-> FALSE, val |-> ZeroNode]
        ELSE [v |-> v, ok |-> TRUE, val |-> m[field]]

\* The labels loop of Validator.validateMetadata; i is the Go index (0-based).
RECURSIVE labelsLoop(_, _, _)
labelsLoop(v, content, i) ==
    IF ~(i + 1 < Len(content)) THEN v
    ELSE LET k == content[i + 1]
             val == content[i + 2]
             v1 == IF k.Tag # "!!str" THEN fail(v, k.Line, "labels key must be string") ELSE v
             v2 == IF val.Tag # "!!str" THEN fail(v1, val.Line, "labels value must be string")
                   ELSE v1
         IN  labelsLoop(v2, content, i + 2)

validateMetadata(v, node) ==
    IF node.Kind # "MappingNode" THEN fail(v, node.Line, "metadata must be object")
    ELSE LET m == mapify(node)
             v1 == IF ~Has(m, "name") THEN fail(v, node.Line, "name is required")
                   ELSE IF ~isString(m["name"]) THEN fail(v, m["name"].Line, "name must be string")
                   ELSE IF TrimSpace(m["name"].Value) = ""
                        THEN fail(v, m["name"].Line, "name is required")
                   ELSE v
             v2 == IF Has(m, "namespace") /\ ~isString(m["namespace"])
                   THEN fail(v1, m["namespace"].Line, "namespace must be string")
                   ELSE v1
             v3 == IF ~Has(m, "labels") THEN v2
                   ELSE IF m["labels"].Kind # "MappingNode"
                        THEN fail(v2, m["labels"].Line, "labels must be object")
                   ELSE labelsLoop(v2, m["labels"].Content, 0)
         IN  v3

\* The os switch of Validator.validateSpec.
validateOS(v, osn) ==
    IF osn.Kind = "ScalarNode"
    THEN IF osn.Value \notin validOS
         THEN fail(v, osn.Line, "os has unsupported value '" \o osn.Value \o "'")
         ELSE v
    ELSE IF osn.Kind = "MappingNode"
    THEN LET obj == mapify(osn)
         IN  IF ~Has(obj, "name") THEN fail(v, osn.Line, "name is required")
             ELSE IF ~isString(obj["name"]) THEN fail(v, obj["name"].Line, "name must be string")
             ELSE IF obj["name"].Value \notin validOS
                  THEN fail(v, obj["name"].Line,
                            "name has unsupported value '" \o obj["name"].Value \o "'")
             ELSE v
    ELSE fail(v, osn.Line, "os must be string or object")

\* Validator.validateSpec up to its loop: the Validator it leaves, and the
\* containers the loop will range over (none after an early return).
validateSpec(v, node) ==
    IF node.Kind # "MappingNode"
    THEN [v |-> fail(v, node.Line, "spec must be object"), items |-> <<>>]
    ELSE LET m == mapify(node)
             v1 == IF Has(m, "os") THEN validateOS(v, m["os"]) ELSE v
         IN  IF ~Has(m, "containers")
             THEN [v |-> fail(v1, node.Line, "containers is required"), items |-> <<>>]
             ELSE IF m["containers"].Kind # "SequenceNode"
             THEN [v |-> fail(v1, m["containers"].Line, "containers must be array"),
                   items |-> <<>>]
             ELSE [v |-> v1, items |-> m["containers"].Content]

\* Validator.validateRoot up to the containers loop of validateSpec, which
\* is the last thing it runs.
validateRoot(v, root) ==
    LET doc == IF root.Kind = "DocumentNode" /\ Len(root.Content) > 0
               THEN root.Content[1] ELSE root
    IN  IF doc.Kind # "MappingNode"
        THEN [v |-> fail(v, doc.Line, "top-level must be a mapping"), items |-> <<>>]
        ELSE LET m == mapify(doc)
                 v1 == IF ~Has(m, "apiVersion") THEN fail(v, doc.Line, "apiVersion is required")
                       ELSE IF ~isString(m["apiVersion"])
                            THEN fail(v, m["apiVersion"].Line, "apiVersion must be string")
                       ELSE IF m["apiVersion"].Value # "v1"
                            THEN fail(v, m["apiVersion"].Line,
                                      "apiVersion has unsupported value '"
                                          \o m["apiVersion"].Value \o "'")
                       ELSE v
                 v2 == IF ~Has(m, "kind") THEN fail(v1, doc.Line, "kind is required")
                       ELSE IF ~isString(m["kind"])
                            THEN fail(v1, m["kind"].Line, "kind must be string")
                       ELSE IF m["kind"].Value # "Pod"
                            THEN fail(v1, m["kind"].Line,
                                      "kind has unsupported value '" \o m["kind"].Value \o "'")
                       ELSE v1
                 v3 == IF ~Has(m, "metadata") THEN fail(v2, doc.Line, "metadata is required")
                       ELSE validateMetadata(v2, m["metadata"])
             IN  IF ~Has(m, "spec")
                 THEN [v |-> fail(v3, doc.Line, "spec is required"), items |-> <<>>]
                 ELSE validateSpec(v3, m["spec"])

\* The range check with its upper bound off by one.
PortOutOfRange_OffByOne(p) == p <= 0 \/ p > 65536

\* The range check both validators apply to a parsed port number.
PortOutOfRange(p) == p <= 0 \/ p >= 65536

validatePort(v, node) ==
    IF node.Kind # "MappingNode" THEN fail(v, node.Line, "ports item must be object")
    ELSE LET m == mapify(node)
             v1 == IF ~Has(m, "containerPort")
                   THEN fail(v, node.Line, "containerPort is required")
                   ELSE IF ~isInt(m["containerPort"])
                        THEN fail(v, m["containerPort"].Line, "containerPort must be int")
                   ELSE IF PortOutOfRange(Atoi(m["containerPort"].Value).val)
                        THEN fail(v, m["containerPort"].Line, "containerPort value out of range")
                   ELSE v
         IN  IF ~Has(m, "protocol") THEN v1
             ELSE IF ~isString(m["protocol"])
                  THEN fail(v1, m["protocol"].Line, "protocol must be string")
             ELSE IF m["protocol"].Value \notin validPro
                  THEN fail(v1, m["protocol"].Line,
                            "protocol has unsupported value '" \o m["protocol"].Value \o "'")
             ELSE v1

\* The ports loop breaking off at the first element that fails.
RECURSIVE portsLoop_StopAtFirst(_, _, _)
portsLoop_StopAtFirst(v, content, i) ==
    IF i >= Len(content) THEN v
    ELSE LET v1 == validatePort(v, content[i + 1])
         IN  IF v1.errs > v.errs THEN v1 ELSE portsLoop_StopAtFirst(v1, content, i + 1)

\* The ports loop of Validator.validateContainer; i counts the elements done.
RECURSIVE portsLoop(_, _, _)
portsLoop(v, content, i) ==
    IF i >= Len(content) THEN v
    ELSE portsLoop(validatePort(v, content[i + 1]), content, i + 1)

validateProbe(v, node) ==
    IF node.Kind # "MappingNode" THEN fail(v, node.Line, "readinessProbe must be object")
    ELSE LET m == mapify(node)
         IN  IF ~Has(m, "httpGet") THEN fail(v, node.Line, "httpGet is required")
             ELSE IF m["httpGet"].Kind # "MappingNode"
                  THEN fail(v, m["httpGet"].Line, "httpGet must be object")
             ELSE LET hg == m["httpGet"]
                      obj == mapify(hg)
                      v1 == IF ~Has(obj, "path") THEN fail(v, hg.Line, "path is required")
                            ELSE IF ~isString(obj["path"])
                                 THEN fail(v, obj["path"].Line, "path must be string")
                            ELSE IF ~reAbs(obj["path"].Value)
                                 THEN fail(v, obj["path"].Line,
                                           "path has invalid format '" \o obj["path"].Value \o "'")
                            ELSE v
                  IN  IF ~Has(obj, "port") THEN fail(v1, hg.Line, "port is required")
                      ELSE IF ~isInt(obj["port"])
                           THEN fail(v1, obj["port"].Line, "port must be int")
                      ELSE IF PortOutOfRange(Atoi(obj["port"].Value).val)
                           THEN fail(v1, obj["port"].Line, "port value out of range")
                      ELSE v1

validateResKV(v, name, node) ==
    IF node.Kind # "MappingNode" THEN fail(v, node.Line, name \o " must be object")
    ELSE LET m == mapify(node)
             v1 == IF Has(m, "cpu") /\ ~isInt(m["cpu"])
                   THEN fail(v, m["cpu"].Line, "cpu must be int")
                   ELSE v
         IN  IF ~Has(m, "memory") THEN v1
             ELSE IF ~isString(m["memory"])
                  THEN fail(v1, m["memory"].Line, "memory must be string")
             ELSE IF ~reMem(m["memory"].Value)
                  THEN fail(v1, m["memory"].Line,
                            "memory has invalid format '" \o m["memory"].Value \o "'")
             ELSE v1

validateResources(v, node) ==
    IF node.Kind # "MappingNode" THEN fail(v, node.Line, "resources must be object")
    ELSE LET m == mapify(node)
             v1 == IF Has(m, "limits") THEN validateResKV(v, "limits", m["limits"]) ELSE v
         IN  IF Has(m, "requests") THEN validateResKV(v1, "requests", m["requests"]) ELSE v1

validateContainer(v, node) ==
    IF node.Kind # "MappingNode" THEN fail(v, node.Line, "container must be object")
    ELSE LET m == mapify(node)
             v1 == IF ~Has(m, "name") THEN fail(v, node.Line, "name is required")
                   ELSE IF ~isString(m["name"]) THEN fail(v, m["name"].Line, "name must be string")
                   ELSE IF ~reSnake(m["name"].Value)
                        THEN fail(v, m["name"].Line,
                                  "name has invalid format '" \o m["name"].Value \o "'")
                   ELSE v
             v2 == IF ~Has(m, "image") THEN fail(v1, node.Line, "image is required")
                   ELSE IF ~isString(m["image"])
                        THEN fail(v1, m["image"].Line, "image must be string")
                   ELSE IF ~reImage(m["image"].Value)
                        THEN fail(v1, m["image"].Line,
                                  "image has invalid format '" \o m["image"].Value \o "'")
                   ELSE v1
             v3 == IF ~Has(m, "ports") THEN v2
                   ELSE IF m["ports"].Kind # "SequenceNode"
                        THEN fail(v2, m["ports"].Line, "ports must be array")
                   ELSE portsLoop(v2, m["ports"].Content, 0)
             v4 == IF Has(m, "readinessProbe") THEN validateProbe(v3, m["readinessProbe"]) ELSE v3
             v5 == IF Has(m, "livenessProbe") THEN validateProbe(v4, m["livenessProbe"]) ELSE v4
         IN  IF ~Has(m, "resources") THEN fail(v5, node.Line, "resources is required")
             ELSE validateResources(v5, m["resources"])

(***************************************************************************)
(* The fail-fast validator.  An error value is nil (NoErr), a              *)
(* *validationError (line nil or a pointer to the node's Line, and msg) or *)
(* a system error of run.  Every validator returns the error it ends with  *)
(* and the log of the checks it examined, in order, each with the field    *)
(* looked up, what the lookup found and the check's outcome.               *)
(***************************************************************************)
NoErr == [kind |-> "nil", hasLine |-> FALSE, line |-> 0, msg |-> ""]
VErr(msg) == [kind |-> "validation", hasLine |-> FALSE, line |-> 0, msg |-> msg]
VErrAt(line, msg) == [kind |-> "validation", hasLine |-> TRUE, line |-> line, msg |-> msg]
SysErr(msg) == [kind |-> "system", hasLine |-> FALSE, line |-> 0, msg |-> msg]

\* A lookup result that found node.
Found(node) == [ok |-> TRUE, node |-> node]

\* One examined check: the log keeps the looked-up node without its children.
Check(field, r, err) ==
    [err |-> err,
     seen |-> <<[field |-> field, ok |-> r.ok, Kind |-> r.node.Kind, Tag |-> r.node.Tag,
                 Value |-> r.node.Value, Line |-> r.node.Line, found |-> err]>>]

\* "if err != nil { return err }" between two errors.
FirstErr(e1, e2) == IF e1 # NoErr THEN e1 ELSE e2

\* Then with the early return lost: rest is examined whatever first ended with.
Then_NoEarlyReturn(first, rest) ==
    [err |-> FirstErr(first.err, rest.err), seen |-> first.seen \o rest.seen]

\* "if err := first; err != nil { return err }; rest": rest is examined only
\* when first ended without an error.
Then(first, rest) ==
    IF first.err # NoErr THEN first
    ELSE [err |-> rest.err, seen |-> first.seen \o rest.seen]

Skip == [err |-> NoErr, seen |-> <<>>]

ensureString(node, field) ==
    IF node.Kind # "ScalarNode" \/ node.Tag # "!!str"
    THEN VErrAt(node.Line, field \o " must be string")
    ELSE NoErr

ensureInt(node, field) ==
    IF node.Kind # "ScalarNode" \/ node.Tag # "!!int"
    THEN VErrAt(node.Line, field \o " must be int")
    ELSE IF ~Atoi(node.Value).ok THEN VErrAt(node.Line, field \o " must be int")
    ELSE NoErr

validateImage(node) ==
    LET val == node.Value
        bad == VErrAt(node.Line, "image has invalid format '" \o val \o "'")
    IN  IF ~HasPrefix(val, ImagePrefix) THEN bad
        ELSE LET slash == LastIndex(val, "/")
                 colon == LastIndex(val, ":")
             IN  IF colon = -1 \/ colon < slash + 1 \/ colon = Len(val) - 1 THEN bad
                 ELSE NoErr

validateMetadataF(node) ==
    LET nameR == getMapValue(node, "name")
        nsR == getMapValue(node, "namespace")
        labelsR == getMapValue(node, "labels")
    IN  Then(Check("metadata.name", nameR,
                   IF ~nameR.ok THEN VErr("name is required")
                   ELSE ensureString(nameR.node, "name")),
        Then(IF nsR.ok THEN Check("metadata.namespace", nsR, ensureString(nsR.node, "namespace"))
             ELSE Skip,
             IF labelsR.ok
             THEN Check("metadata.labels", labelsR,
                        IF labelsR.node.Kind # "MappingNode"
                        THEN VErrAt(labelsR.node.Line, "labels must be object")
                        ELSE NoErr)
             ELSE Skip))

\* validateSpec (fail-fast) up to its loop, with the containers the loop will
\* range over (none when it returned an error).
validateSpecF(node) ==
    LET osR == getMapValue(node, "os")
        cR == getMapValue(node, "containers")
        res == Then(IF osR.ok
                    THEN Check("os", osR,
                               FirstErr(ensureString(osR.node, "os"),
                                        IF osR.node.Value # "linux" /\ osR.node.Value # "windows"
                                        THEN VErrAt(osR.node.Line,
                                                    "os has unsupported value '"
                                                        \o osR.node.Value \o "'")
                                        ELSE NoErr))
                    ELSE Skip,
                    Check("containers", cR,
                          IF ~cR.ok THEN VErr("containers is required")
                          ELSE IF cR.node.Kind # "SequenceNode"
                               THEN VErrAt(cR.node.Line, "containers must be array")
                          ELSE IF Len(cR.node.Content) = 0
                               THEN VErrAt(cR.node.Line, "containers value out of range")
                          ELSE NoErr))
    IN  [err |-> res.err, seen |-> res.seen,
         items |-> IF res.err = NoErr THEN cR.node.Content ELSE <<>>]

\* validatePod up to the containers loop of validateSpec, its last call.
validatePod(doc) ==
    IF doc.Kind # "MappingNode"
    THEN LET res == Check("root", Found(doc), VErrAt(doc.Line, "root must be object"))
         IN  [err |-> res.err, seen |-> res.seen, items |-> <<>>]
    ELSE LET apiR == getMapValue(doc, "apiVersion")
             kindR == getMapValue(doc, "kind")
             metaR == getMapValue(doc, "metadata")
             specR == getMapValue(doc, "spec")
             top ==
                 Then(Check("apiVersion", apiR,
                            IF ~apiR.ok THEN VErr("apiVersion is required")
                            ELSE FirstErr(ensureString(apiR.node, "apiVersion"),
                                          IF apiR.node.Value # "v1"
                                          THEN VErrAt(apiR.node.Line,
                                                      "apiVersion has unsupported value '"
                                                          \o apiR.node.Value \o "'")
                                          ELSE NoErr)),
                 Then(Check("kind", kindR,
                            IF ~kindR.ok THEN VErr("kind is required")
                            ELSE FirstErr(ensureString(kindR.node, "kind"),
                                          IF kindR.node.Value # "Pod"
                                          THEN VErrAt(kindR.node.Line,
                                                      "kind has unsupported value '"
                                                          \o kindR.node.Value \o "'")
                                          ELSE NoErr)),
                 Then(Check("metadata", metaR,
                            IF ~metaR.ok THEN VErr("metadata is required")
                            ELSE IF metaR.node.Kind # "MappingNode"
                                 THEN VErrAt(metaR.node.Line, "metadata must be object")
                            ELSE NoErr),
                 Then(validateMetadataF(metaR.node),
                      Check("spec", specR,
                            IF ~specR.ok THEN VErr("spec is required")
                            ELSE IF specR.node.Kind # "MappingNode"
                                 THEN VErrAt(specR.node.Line, "spec must be object")
                            ELSE NoErr)))))
         IN  IF top.err # NoErr THEN [err |-> top.err, seen |-> top.seen, items |-> <<>>]
             ELSE LET sp == validateSpecF(specR.node)
                  IN  [err |-> sp.err, seen |-> top.seen \o sp.seen, items |-> sp.items]

validateContainerPort(node) ==
    LET cpR == getMapValue(node, "containerPort")
        protoR == getMapValue(node, "protocol")
    IN  Then(Check("containerPort", cpR,
                   IF ~cpR.ok THEN VErr("containerPort is required")
                   ELSE FirstErr(ensureInt(cpR.node, "containerPort"),
                                 IF PortOutOfRange(Atoi(cpR.node.Value).val)
                                 THEN VErrAt(cpR.node.Line, "containerPort value out of range")
                                 ELSE NoErr)),
             IF protoR.ok
             THEN Check("protocol", protoR,
                        FirstErr(ensureString(protoR.node, "protocol"),
                                 IF protoR.node.Value # "TCP" /\ protoR.node.Value # "UDP"
                                 THEN VErrAt(protoR.node.Line,
                                             "protocol has unsupported value '"
                                                 \o protoR.node.Value \o "'")
                                 ELSE NoErr))
             ELSE Skip)

\* The ports loop of validateContainer (fail-fast); i counts the elements done.
RECURSIVE portsLoopF(_, _)
portsLoopF(content, i) ==
    IF i >= Len(content) THEN Skip
    ELSE LET p == content[i + 1]
         IN  Then(Check("ports item", Found(p),
                        IF p.Kind # "MappingNode" THEN VErrAt(p.Line, "ports must be object")
                        ELSE NoErr),
             Then(validateContainerPort(p), portsLoopF(content, i + 1)))

validateProbeF(node) ==
    LET httpR == getMapValue(node, "httpGet")
        pathR == getMapValue(httpR.node, "path")
        portR == getMapValue(httpR.node, "port")
    IN  Then(Check("httpGet", httpR,
                   IF ~httpR.ok THEN VErr("httpGet is required")
                   ELSE IF httpR.node.Kind # "MappingNode"
                        THEN VErrAt(httpR.node.Line, "httpGet must be object")
                   ELSE NoErr),
        Then(Check("path", pathR,
                   IF ~pathR.ok THEN VErr("path is required")
                   ELSE FirstErr(ensureString(pathR.node, "path"),
                                 IF ~HasPrefix(pathR.node.Value, "/")
                                 THEN VErrAt(pathR.node.Line,
                                             "path has invalid format '"
                                                 \o pathR.node.Value \o "'")
                                 ELSE NoErr)),
             Check("port", portR,
                   IF ~portR.ok THEN VErr("port is required")
                   ELSE FirstErr(ensureInt(portR.node, "port"),
                                 IF PortOutOfRange(Atoi(portR.node.Value).val)
                                 THEN VErrAt(portR.node.Line, "port value out of range")
                                 ELSE NoErr))))

\* validateResourceMap: every pair of the mapping, in order; i is the Go index.
RECURSIVE validateResourceMap(_, _)
validateResourceMap(node, i) ==
    IF i >= Len(node.Content) THEN Skip
    ELSE LET k == node.Content[i + 1]
             v == node.Content[i + 2]
             this == IF k.Value = "cpu" THEN Check("cpu", Found(v), ensureInt(v, "cpu"))
                     ELSE IF k.Value = "memory"
                     THEN Check("memory", Found(v),
                                FirstErr(ensureString(v, "memory"),
                                         IF ~isValidMemory(v.Value)
                                         THEN VErrAt(v.Line,
                                                     "memory has invalid format '"
                                                         \o v.Value \o "'")
                                         ELSE NoErr))
                     ELSE Skip
         IN  Then(this, validateResourceMap(node, i + 2))

validateResourcesF(node) ==
    LET limR == getMapValue(node, "limits")
        reqR == getMapValue(node, "requests")
        one(name, r) ==
            IF ~r.ok THEN Skip
            ELSE Then(Check(name, r,
                            IF r.node.Kind # "MappingNode"
                            THEN VErrAt(r.node.Line, name \o " must be object")
                            ELSE NoErr),
                      validateResourceMap(r.node, 0))
    IN  Then(one("limits", limR), one("requests", reqR))

validateContainerF(node) ==
    LET nameR == getMapValue(node, "name")
        imageR == getMapValue(node, "image")
        portsR == getMapValue(node, "ports")
        rpR == getMapValue(node, "readinessProbe")
        lpR == getMapValue(node, "livenessProbe")
        resR == getMapValue(node, "resources")
        probe(name, r) ==
            IF ~r.ok THEN Skip
            ELSE Then(Check(name, r,
                            IF r.node.Kind # "MappingNode"
                            THEN VErrAt(r.node.Line, name \o " must be object")
                            ELSE NoErr),
                      validateProbeF(r.node))
    IN  Then(Check("name", nameR,
                   IF ~nameR.ok THEN VErr("name is required")
                   ELSE FirstErr(ensureString(nameR.node, "name"),
                                 IF ~isSnakeCase(nameR.node.Value)
                                 THEN VErrAt(nameR.node.Line,
                                             "name has invalid format '"
                                                 \o nameR.node.Value \o "'")
                                 ELSE NoErr)),
        Then(Check("image", imageR,
                   IF ~imageR.ok THEN VErr("image is required")
                   ELSE FirstErr(ensureString(imageR.node, "image"),
                                 validateImage(imageR.node))),
        Then(IF ~portsR.ok THEN Skip
             ELSE Then(Check("ports", portsR,
                             IF portsR.node.Kind # "SequenceNode"
                             THEN VErrAt(portsR.node.Line, "ports must be array")
                             ELSE NoErr),
                       portsLoopF(portsR.node.Content, 0)),
        Then(probe("readinessProbe", rpR),
        Then(probe("livenessProbe", lpR),
        Then(Check("resources", resR,
                   IF ~resR.ok THEN VErr("resources is required")
                   ELSE IF resR.node.Kind # "MappingNode"
                        THEN VErrAt(resR.node.Line, "resources must be object")
                   ELSE NoErr),
             validateResourcesF(resR.node)))))))

\* One iteration of the containers loop of validateSpec (fail-fast).
containerStepF(c) ==
    Then(Check("container", Found(c),
               IF c.Kind # "MappingNode" THEN VErrAt(c.Line, "container must be object")
               ELSE NoErr),
         validateContainerF(c))

(***************************************************************************)
(* The inputs: node trees as yaml.Unmarshal builds them from block-style   *)
(* documents.  A template is written with lines relative to its first line *)
(* and moved into place by Shift.                                          *)
(***************************************************************************)
MaxContainers == 2
MaxPorts == 2

RECURSIVE Shift(_, _)
Shift(n, d) ==
    Node(n.Kind, n.Tag, n.Value, n.Line + d,
         [j \in 1..Len(n.Content) |-> Shift(n.Content[j], d)])

\* A key/value pair of a mapping's Content, or no pair at all.
KV(key, line, val) == <<Str(key, line), val>>
Absent == <<>>

\* Every sequence of at most max elements of S.
SeqsUpTo(S, max) == UNION {[1..n -> S] : n \in 0..max}

NameStrings == {"web", "a_b1", "Web-1", "a__b", "_a", "a_"}
ImageStrings == {"registry.bigbrother.io/app:1.0", "docker.io/app:1.0",
                 "registry.bigbrother.io/app", "registry.bigbrother.io/app:",
                 "registry.bigbrother.io/a:b:c"}
MemoryStrings == {"512Mi", "2Gi", "100Ki", "512mi", "512", "512Xi", "-5Gi", "Gi", "1.5Gi"}
PortStrings == {"8080", "0", "1", "65535", "65536", "-1"}

GoodImage == "registry.bigbrother.io/app:1.0"

\* --- pieces of a container, lines relative to the container's first line ---
NameKVs == {Absent} \cup {KV("name", 0, Str(s, 0)) : s \in NameStrings}
               \cup {KV("name", 0, IntN("5", 0)),
                     \* the key twice, as in the flow mapping {name: Web-1, name: web}
                     KV("name", 0, Str("Web-1", 0)) \o KV("name", 0, Str("web", 0))}
GoodName == KV("name", 0, Str("web", 0))

ImageKVs == {Absent} \cup {KV("image", 1, Str(s, 1)) : s \in ImageStrings}
                \cup {KV("image", 1, IntN("5", 1))}
GoodImageKV == KV("image", 1, Str(GoodImage, 1))

\* A ports element, lines relative to the element.
PortElems ==
    {Mapping(0, KV("containerPort", 0, IntN(p, 0))) : p \in PortStrings}
        \cup {Mapping(0, Absent),
              Mapping(0, KV("containerPort", 0, Str("80", 0))),
              Mapping(0, KV("containerPort", 0, IntN("80", 0)) \o KV("protocol", 1, Str("TCP", 1))),
              Mapping(0, KV("containerPort", 0, IntN("0", 0)) \o KV("protocol", 1, Str("ICMP", 1))),
              Str("http", 0)}

PortsKVs ==
    {Absent, KV("ports", 2, Str("80", 2))}
        \cup {KV("ports", 2, Sequence(3, [j \in 1..Len(es) |-> Shift(es[j], 3 + 2 * (j - 1))])) :
                 es \in SeqsUpTo(PortElems, MaxPorts)}

\* A probe under key name, lines relative to the key.
HttpGets ==
    {Mapping(2, path \o port) :
        path \in {Absent, KV("path", 2, Str("/health", 2)), KV("path", 2, Str("health", 2)),
                  KV("path", 2, IntN("1", 2))},
        port \in {Absent, KV("port", 3, Str("http", 3))}
                     \cup {KV("port", 3, IntN(p, 3)) : p \in PortStrings}}
        \cup {Str("get", 1)}

ProbeKVs(name, at) ==
    {Absent, KV(name, at, Str("none", at)), KV(name, at, Mapping(at, Absent)),
     KV(name, at, Mapping(at + 1, KV("exec", at + 1, Str("ls", at + 1))))}
        \cup {KV(name, at, Mapping(at + 1, KV("httpGet", at + 1, Shift(h, at)))) : h \in HttpGets}

GoodProbe(name, at) ==
    KV(name, at, Mapping(at + 1, KV("httpGet", at + 1,
           Mapping(at + 2, KV("path", at + 2, Str("/health", at + 2))
                               \o KV("port", at + 3, IntN("8080", at + 3))))))

BadPortProbe(name, at) ==
    KV(name, at, Mapping(at + 1, KV("httpGet", at + 1,
           Mapping(at + 2, KV("path", at + 2, Str("health", at + 2))
                               \o KV("port", at + 3, IntN("0", at + 3))))))

\* A resource quantity map, lines relative to the map.
ResMaps ==
    {Mapping(0, Absent),
     Mapping(0, KV("cpu", 0, IntN("2", 0))),
     Mapping(0, KV("cpu", 0, Str("two", 0))),
     Mapping(0, KV("cpu", 0, IntN("0x2", 0))),
     Mapping(0, KV("memory", 1, IntN("512", 1))),
     Mapping(0, KV("gpu", 0, Str("lots", 0)) \o KV("memory", 1, Str("1Gi", 1))),
     Mapping(0, KV("memory", 1, Str("1Gi", 1)) \o KV("memory", 2, Str("1Gb", 2))),
     Str("1Gi", 0)}
        \cup {Mapping(0, KV("cpu", 0, IntN("2", 0)) \o KV("memory", 1, Str(s, 1))) :
                 s \in MemoryStrings}

GoodResMap == Mapping(0, KV("cpu", 0, IntN("2", 0)) \o KV("memory", 1, Str("512Mi", 1)))

ResourcesKVs ==
    {Absent, KV("resources", 18, Str("none", 18)), KV("resources", 18, Mapping(18, Absent)),
     \* a key that is an alias node (*limits): not a scalar, its Value is the anchor's name
     KV("resources", 18, Mapping(19, <<Node("AliasNode", "", "limits", 19, <<>>),
                                       Str("none", 19)>>))}
        \cup {KV("resources", 18, Mapping(19, KV("limits", 19, Shift(m, 20)))) : m \in ResMaps}
        \cup {KV("resources", 18,
                 Mapping(19, KV("limits", 19, Shift(GoodResMap, 20))
                                 \o KV("requests", 22, Shift(m, 23)))) : m \in ResMaps}

GoodResources == KV("resources", 18, Mapping(19, KV("limits", 19, Shift(GoodResMap, 20))))

ResourcesFew ==
    {GoodResources, Absent, KV("resources", 18, Str("none", 18)),
     KV("resources", 18, Mapping(19, KV("limits", 19,
            Shift(Mapping(0, KV("memory", 1, Str("-5Gi", 1))), 20))))}

\* Container templates: the fields varied together, the others valid.
ContainerTemplate(name, image, ports, rp, lp, res) ==
    Mapping(0, name \o image \o ports \o rp \o lp \o res)

GoodContainer == ContainerTemplate(GoodName, GoodImageKV, Absent, Absent, Absent, GoodResources)

ContainersByField ==
    {ContainerTemplate(n, i, Absent, Absent, Absent, r) :
        n \in NameKVs, i \in ImageKVs, r \in ResourcesFew}
        \cup {ContainerTemplate(GoodName, GoodImageKV, p, rp, Absent, GoodResources) :
                 p \in PortsKVs,
                 rp \in {Absent, BadPortProbe("readinessProbe", 10)}}
        \cup {ContainerTemplate(GoodName, GoodImageKV, Absent, rp, lp, GoodResources) :
                 rp \in ProbeKVs("readinessProbe", 10),
                 lp \in {Absent, GoodProbe("livenessProbe", 14),
                         BadPortProbe("livenessProbe", 14), KV("livenessProbe", 14, Str("x", 14))}}
        \cup {ContainerTemplate(GoodName, GoodImageKV, Absent, Absent, Absent, r) :
                 r \in ResourcesKVs}

ContainersFew ==
    {GoodContainer, Str("web", 0),
     ContainerTemplate(KV("name", 0, Str("a__b", 0)), GoodImageKV, Absent, Absent, Absent,
                       GoodResources),
     ContainerTemplate(KV("name", 0, Str("Web-1", 0)), GoodImageKV,
                       KV("ports", 2, Sequence(3, <<Mapping(3, KV("containerPort", 3, IntN("0", 3)))>>)),
                       Absent, Absent, Absent)}

\* The first line of container i (1-based) of the document.
Base(i) == 20 + 30 * (i - 1)

ContainersKV(items) ==
    KV("containers", 12,
       Sequence(IF Len(items) = 0 THEN 12 ELSE Base(1),
                [i \in 1..Len(items) |-> Shift(items[i], Base(i))]))

\* --- pieces of the document ---
ApiVersionKVs == {Absent, KV("apiVersion", 1, Str("v1", 1)), KV("apiVersion", 1, Str("v2", 1)),
                  KV("apiVersion", 1, IntN("1", 1))}
GoodApiVersion == KV("apiVersion", 1, Str("v1", 1))

KindKVs == {Absent, KV("kind", 2, Str("Pod", 2)), KV("kind", 2, Str("Job", 2))}
GoodKind == KV("kind", 2, Str("Pod", 2))

LabelsKVs ==
    {Absent,
     KV("labels", 6, Mapping(7, KV("app", 7, Str("web", 7)) \o KV("tier", 8, Str("db", 8)))),
     KV("labels", 6, Mapping(7, KV("app", 7, IntN("1", 7)) \o KV("tier", 8, IntN("2", 8)))),
     KV("labels", 6, Mapping(7, <<IntN("1", 7), Str("one", 7)>>)),
     KV("labels", 6, Str("web", 6))}

MetadataKVs ==
    {Absent, KV("metadata", 3, Str("app", 3))}
        \cup {KV("metadata", 3, Mapping(4, name \o ns \o labels)) :
                 name \in {Absent, KV("name", 4, Str("app", 4)), KV("name", 4, Str("  ", 4)),
                           KV("name", 4, Str("", 4)), KV("name", 4, IntN("7", 4))},
                 ns \in {Absent, KV("namespace", 5, Str("prod", 5)),
                         KV("namespace", 5, IntN("1", 5))},
                 labels \in LabelsKVs}

GoodMetadata == KV("metadata", 3, Mapping(4, KV("name", 4, Str("app", 4))))

MetadataFew ==
    {GoodMetadata, Absent, KV("metadata", 3, Str("app", 3)),
     KV("metadata", 3, Mapping(4, Absent)),
     KV("metadata", 3, Mapping(4, KV("name", 4, Str("  ", 4))))}

OsKVs ==
    {Absent, KV("os", 10, Str("linux", 10)), KV("os", 10, Str("windows", 10)),
     KV("os", 10, Str("macos", 10)), KV("os", 10, IntN("1", 10)),
     KV("os", 10, Mapping(11, KV("name", 11, Str("linux", 11)))),
     KV("os", 10, Mapping(11, KV("name", 11, Str("bsd", 11)))),
     KV("os", 10, Mapping(11, KV("name", 11, IntN("1", 11)))),
     KV("os", 10, Mapping(10, Absent)),
     KV("os", 10, Sequence(11, <<Str("linux", 11)>>))}

SpecKV(os, containers) == KV("spec", 9, Mapping(10, os \o containers))

GoodSpec == SpecKV(Absent, ContainersKV(<<GoodContainer>>))

SpecFew ==
    {GoodSpec, Absent, KV("spec", 9, Str("none", 9)), SpecKV(Absent, Absent),
     SpecKV(Absent, ContainersKV(<<>>))}

Doc(api, kind, meta, spec) == Document(Mapping(1, api \o kind \o meta \o spec))

Trees ==
    {ZeroNode, Document(Str("hello", 1)), Document(Sequence(1, <<Str("a", 1)>>))}
        \cup {Doc(a, k, m, s) : a \in ApiVersionKVs, k \in KindKVs, m \in MetadataFew, s \in SpecFew}
        \cup {Doc(GoodApiVersion, GoodKind, m, GoodSpec) : m \in MetadataKVs}
        \cup {Doc(GoodApiVersion, GoodKind, GoodMetadata, SpecKV(os, cs)) :
                 os \in OsKVs,
                 cs \in {Absent, KV("containers", 12, Str("web", 12))}
                            \cup {ContainersKV(items) :
                                     items \in SeqsUpTo(ContainersFew, MaxContainers)}}
        \cup {Doc(GoodApiVersion, GoodKind, GoodMetadata, SpecKV(Absent, ContainersKV(<<c>>))) :
                 c \in ContainersByField}

\* What os.ReadFile and yaml.Unmarshal make of the file named on the command line
\* (with another argument count no file is opened: Unreadable stands for it).
Unreadable == [readable |-> FALSE, parses |-> FALSE, root |-> ZeroNode]
Unparsable == [readable |-> TRUE, parses |-> FALSE, root |-> ZeroNode]
Files == {Unreadable, Unparsable} \cup {[readable |-> TRUE, parses |-> TRUE, root |-> t] : t \in Trees}

ArgCounts == {0, 1, 2}

(***************************************************************************)
(* The two programs as state machines.  Each main is cut at its containers *)
(* loop: one step for what precedes the loop, one per iteration, one for   *)
(* the verdict.                                                            *)
(***************************************************************************)
VARIABLES
    argc,       \* len(os.Args) - 1
    file,       \* the file named by os.Args[1]
    pcA,        \* accumulate-all: "main", "validateRoot", "containers", "exit", "done"
    vA,         \* accumulate-all: the Validator (out, errs)
    itemsA,     \* accumulate-all: cn.Content, the containers being ranged over
    iA,         \* accumulate-all: iterations of the containers loop done
    exitA,      \* accumulate-all: the process exit code, -1 while running
    pcF,        \* fail-fast: "main", "run", "containers", "report", "done"
    errF,       \* fail-fast: the error run returns
    seenF,      \* fail-fast: the checks examined so far, in order
    itemsF,     \* fail-fast: containersNode.Content
    iF,         \* fail-fast: iterations of the containers loop done
    outF,       \* fail-fast: the lines main printed
    exitF       \* fail-fast: the process exit code, -1 while running

varsA == <<pcA, vA, itemsA, iA, exitA>>
varsF == <<pcF, errF, seenF, itemsF, iF, outF, exitF>>
vars == <<argc, file, pcA, vA, itemsA, iA, exitA, pcF, errF, seenF, itemsF, iF, outF, exitF>>

Init ==
    /\ argc \in ArgCounts
    /\ file \in IF argc = 1 THEN Files ELSE {Unreadable}
    /\ pcA = "main" /\ vA = NewValidator /\ itemsA = <<>> /\ iA = 0 /\ exitA = -1
    /\ pcF = "main" /\ errF = NoErr /\ seenF = <<>> /\ itemsF = <<>> /\ iF = 0
    /\ outF = <<>> /\ exitF = -1

\* main (accumulate-all), lines 73-90: usage, read and parse failures exit 2.
A_Main ==
    /\ pcA = "main"
    /\ IF argc # 1 \/ ~file.readable \/ ~file.parses
       THEN pcA' = "done" /\ exitA' = 2
       ELSE pcA' = "validateRoot" /\ exitA' = exitA
    /\ UNCHANGED <<argc, file, vA, itemsA, iA>>
    /\ UNCHANGED varsF

\* main, lines 92-93, down to the containers loop of validateSpec.
A_ValidateRoot ==
    /\ pcA = "validateRoot"
    /\ LET r == validateRoot(NewValidator, file.root)
       IN  /\ vA' = r.v
           /\ itemsA' = r.items
           /\ pcA' = IF Len(r.items) = 0 THEN "exit" ELSE "containers"
    /\ UNCHANGED <<argc, file, iA, exitA>>
    /\ UNCHANGED varsF

\* One iteration of "for _, item := range cn.Content".
A_ValidateContainer ==
    /\ pcA = "containers"
    /\ iA < Len(itemsA)
    /\ vA' = validateContainer(vA, itemsA[iA + 1])
    /\ iA' = iA + 1
    /\ pcA' = IF iA + 1 < Len(itemsA) THEN "containers" ELSE "exit"
    /\ UNCHANGED <<argc, file, itemsA, exitA>>
    /\ UNCHANGED varsF

\* main, lines 95-98.
A_Exit ==
    /\ pcA = "exit"
    /\ exitA' = IF vA.errs > 0 THEN 1 ELSE 0
    /\ pcA' = "done"
    /\ UNCHANGED <<argc, file, vA, itemsA, iA>>
    /\ UNCHANGED varsF

\* main (fail-fast), lines 428-434.
F_Main ==
    /\ pcF = "main"
    /\ IF argc # 1
       THEN /\ pcF' = "done" /\ exitF' = 1
            /\ outF' = <<Printed(FALSE, 0, "usage: yamlvalid <file>")>>
       ELSE pcF' = "run" /\ exitF' = exitF /\ outF' = outF
    /\ UNCHANGED <<argc, file, errF, seenF, itemsF, iF>>
    /\ UNCHANGED varsA

\* run, down to the containers loop of validateSpec.
F_Run ==
    /\ pcF = "run"
    /\ LET r == IF ~file.readable
                THEN [err |-> SysErr("cannot read file"), seen |-> <<>>, items |-> <<>>]
                ELSE IF ~file.parses
                THEN [err |-> SysErr("cannot unmarshal file content"), seen |-> <<>>,
                      items |-> <<>>]
                ELSE IF Len(file.root.Content) = 0
                THEN [err |-> VErr("apiVersion is required"), seen |-> <<>>, items |-> <<>>]
                ELSE validatePod(file.root.Content[1])
       IN  /\ errF' = r.err
           /\ seenF' = r.seen
           /\ itemsF' = r.items
           /\ pcF' = IF r.err # NoErr \/ Len(r.items) = 0 THEN "report" ELSE "containers"
    /\ UNCHANGED <<argc, file, iF, outF, exitF>>
    /\ UNCHANGED varsA

\* One iteration of "for _, c := range containersNode.Content".
F_ValidateContainer ==
    /\ pcF = "containers"
    /\ iF < Len(itemsF)
    /\ LET r == containerStepF(itemsF[iF + 1])
       IN  /\ errF' = r.err
           /\ seenF' = seenF \o r.seen
           /\ pcF' = IF r.err # NoErr \/ iF + 1 >= Len(itemsF) THEN "report" ELSE "containers"
    /\ iF' = iF + 1
    /\ UNCHANGED <<argc, file, itemsF, outF, exitF>>
    /\ UNCHANGED varsA

\* main (fail-fast), lines 435-450: print the error run returned and exit 1,
\* or end with 0.
F_Report ==
    /\ pcF = "report"
    /\ IF errF # NoErr
       THEN /\ outF' = <<Printed(errF.kind = "validation" /\ errF.hasLine, errF.line, errF.msg)>>
            /\ exitF' = 1
       ELSE outF' = outF /\ exitF' = 0
    /\ pcF' = "done"
    /\ UNCHANGED <<argc, file, errF, seenF, itemsF, iF>>
    /\ UNCHANGED varsA

Next ==
    \/ A_Main
    \/ A_ValidateRoot
    \/ A_ValidateContainer
    \/ A_Exit
    \/ F_Main
    \/ F_Run
    \/ F_ValidateContainer
    \/ F_Report

Spec == Init /\ [][Next]_vars

(***************************************************************************)
(* What the claims speak of.                                               *)
(***************************************************************************)
\* The run got as far as validating a tree.
Validated == argc = 1 /\ file.readable /\ file.parses

\* The document node the validators are handed.
DocNode == IF file.root.Kind = "DocumentNode" /\ Len(file.root.Content) > 0
           THEN file.root.Content[1] ELSE file.root

\* v.out holds line.
PrintedByA(line) == \E k \in 1..Len(vA.out) : vA.out[k] = line

\* C1. Both policies report the same first violation: when both runs are over
\* on a tree that validatePod and validateRoot were handed, fail-fast reports no
\* violation exactly when the accumulate-all list is empty, and otherwise its
\* violation is the first of that list: the same node's line where fail-fast
\* knows a line, the same message where it knows none (a difference of wording
\* alone is not counted).
C1_SameFirstViolation ==
    (Validated /\ Len(file.root.Content) > 0 /\ pcA = "done" /\ pcF = "done") =>
        /\ (errF = NoErr) <=> (vA.out = <<>>)
        /\ errF # NoErr =>
              IF errF.hasLine THEN Head(vA.out).line = errF.line
              ELSE Head(vA.out).msg = errF.msg

\* The examined checks that ended with an error.
FailedChecks == {k \in 1..Len(seenF) : seenF[k].found # NoErr}

\* C2. Fail-fast stops at the first violation: among the checks examined so far
\* at most one has failed, it is the last one examined, it is the error the run
\* returns, no step follows it but the report, each loop iteration so far
\* examined exactly one container, and main prints exactly that one violation.
C2_FailFastStopsAtFirst ==
    /\ Cardinality(FailedChecks) <= 1
    /\ FailedChecks # {} =>
          /\ FailedChecks = {Len(seenF)}
          /\ errF = seenF[Len(seenF)].found
    /\ (FailedChecks = {} /\ seenF # <<>>) => errF = NoErr
    /\ Cardinality({k \in 1..Len(seenF) : seenF[k].field = "container"}) = iF
    /\ errF # NoErr => pcF \in {"report", "done"}
    /\ (pcF = "done" /\ argc = 1) =>
          IF errF = NoErr THEN outF = <<>>
          ELSE outF = <<Printed(errF.kind = "validation" /\ errF.hasLine, errF.line, errF.msg)>>

\* C2's case: the first of two containers failed, the second was never examined.
C2_Witness ==
    /\ pcF = "done" /\ errF.kind = "validation"
    /\ Len(itemsF) = 2 /\ iF = 1
    /\ Len(seenF) > 1
    /\ itemsF[2].Kind # "MappingNode"
    /\ Len(outF) = 1

\* The violations of container c that do not depend on what precedes it are
\* in the accumulate-all output.
ContainerReported(c) ==
    IF c.Kind # "MappingNode"
    THEN PrintedByA(Printed(TRUE, c.Line, "container must be object"))
    ELSE /\ ~Has(mapify(c), "name") => PrintedByA(Printed(TRUE, c.Line, "name is required"))
         /\ (Has(mapify(c), "ports") /\ mapify(c)["ports"].Kind = "SequenceNode") =>
               \A j \in 1..Len(mapify(c)["ports"].Content) :
                  LET e == mapify(c)["ports"].Content[j]
                  IN  /\ e.Kind # "MappingNode" =>
                            PrintedByA(Printed(TRUE, e.Line, "ports item must be object"))
                      /\ (e.Kind = "MappingNode" /\ ~Has(mapify(e), "containerPort")) =>
                            PrintedByA(Printed(TRUE, e.Line, "containerPort is required"))

\* C3. Accumulate-all never stops at a local failure: the error count is the
\* number of violations printed; once the loop is over every container was
\* handed to validateContainer, so every malformed container, and every
\* malformed element of every ports sequence, has its violation in the output
\* whatever came before it; and the exit code is non-zero iff the count is.
C3_AccumulateAllContinues ==
    /\ vA.errs = Len(vA.out)
    /\ pcA = "containers" => \A i \in 1..iA : ContainerReported(itemsA[i])
    /\ pcA \in {"exit", "done"} =>
          /\ iA = Len(itemsA)
          /\ \A i \in 1..Len(itemsA) : ContainerReported(itemsA[i])
    /\ (pcA = "done" /\ Validated) =>
          /\ (exitA # 0) <=> (vA.errs # 0)
          /\ exitA \in {0, 1}

\* C3's case: two malformed containers, the second reported after the first.
C3_Witness ==
    /\ pcA = "done" /\ exitA = 1
    /\ Len(itemsA) = 2
    /\ itemsA[1].Kind # "MappingNode"
    /\ itemsA[2].Kind = "MappingNode" /\ ~Has(mapify(itemsA[2]), "resources")
    /\ vA.errs = 4
    /\ vA.out[1] = Printed(TRUE, itemsA[1].Line, "container must be object")
    /\ vA.out[4] = Printed(TRUE, itemsA[2].Line, "resources is required")

\* C4. Under both policies a required top-level field that is absent from the
\* root mapping is reported as "<field> is required" with no line.
C4_AbsentFieldHasNoLine ==
    \A f \in {"apiVersion", "kind", "metadata", "spec"} :
        (Validated /\ DocNode.Kind = "MappingNode" /\ ~getMapValue(DocNode, f).ok) =>
            /\ pcA = "done" =>
                  \A k \in 1..Len(vA.out) :
                     vA.out[k].msg = f \o " is required" => ~vA.out[k].hasLine
            /\ pcF = "done" =>
                  \A k \in 1..Len(outF) :
                     outF[k].msg = f \o " is required" => ~outF[k].hasLine

\* The tree holds spec.containers as an empty sequence; its line.
EmptyContainers ==
    /\ Validated
    /\ getMapValue(DocNode, "spec").ok
    /\ getMapValue(getMapValue(DocNode, "spec").node, "containers").ok
    /\ getMapValue(getMapValue(DocNode, "spec").node, "containers").node.Kind = "SequenceNode"
    /\ Len(getMapValue(getMapValue(DocNode, "spec").node, "containers").node.Content) = 0

ContainersLine == getMapValue(getMapValue(DocNode, "spec").node, "containers").node.Line

\* C5. Under both policies an empty containers sequence is rejected with
\* "containers value out of range" at the containers node's line, and the
\* verdict is failure: accumulate-all prints it and exits 1; fail-fast exits 1,
\* and returns it whenever its pass got as far as the containers field.
C5_EmptyContainersRejected ==
    EmptyContainers =>
        /\ pcA = "done" =>
              /\ PrintedByA(Printed(TRUE, ContainersLine, "containers value out of range"))
              /\ exitA = 1
        /\ pcF = "done" =>
              /\ exitF = 1
              /\ (\E k \in 1..Len(seenF) : seenF[k].field = "containers") =>
                    errF = VErrAt(ContainersLine, "containers value out of range")

(***************************************************************************)
(* The schema of spec.md, sections 3 and 4, as a predicate on a tree: what *)
(* "a manifest that meets every rule" means.                               *)
(***************************************************************************)
IsStringNode(n) == n.Kind = "ScalarNode" /\ n.Tag = "!!str"
IsIntegerNode(n) == n.Kind = "ScalarNode" /\ n.Tag = "!!int" /\ Atoi(n.Value).ok
InPortRange(n) == Atoi(n.Value).val >= 1 /\ Atoi(n.Value).val <= 65535

\* "must contain a : after the final /, and the : must not be the last character"
SchemaImage(sv) ==
    /\ HasPrefix(sv, ImagePrefix)
    /\ \E i \in 1..Len(sv) :
          /\ Char(sv, i) = ":"
          /\ i < Len(sv)
          /\ \A j \in i..Len(sv) : Char(sv, j) # "/"

SchemaOptional(r, ok(_)) == ~r.ok \/ ok(r.node)

SchemaPort(e) ==
    /\ e.Kind = "MappingNode"
    /\ getMapValue(e, "containerPort").ok
    /\ IsIntegerNode(getMapValue(e, "containerPort").node)
    /\ InPortRange(getMapValue(e, "containerPort").node)
    /\ LET ok(n) == IsStringNode(n) /\ n.Value \in {"TCP", "UDP"}
       IN  SchemaOptional(getMapValue(e, "protocol"), ok)

SchemaProbe(p) ==
    /\ p.Kind = "MappingNode"
    /\ getMapValue(p, "httpGet").ok
    /\ LET hg == getMapValue(p, "httpGet").node
       IN  /\ hg.Kind = "MappingNode"
           /\ getMapValue(hg, "path").ok
           /\ IsStringNode(getMapValue(hg, "path").node)
           /\ HasPrefix(getMapValue(hg, "path").node.Value, "/")
           /\ getMapValue(hg, "port").ok
           /\ IsIntegerNode(getMapValue(hg, "port").node)
           /\ InPortRange(getMapValue(hg, "port").node)

SchemaQuantities(m) ==
    /\ m.Kind = "MappingNode"
    /\ \A i \in 1..(Len(m.Content) \div 2) :
          LET k == m.Content[2 * i - 1]
              v == m.Content[2 * i]
          IN  /\ k.Value = "cpu" => IsIntegerNode(v)
              /\ k.Value = "memory" => IsStringNode(v) /\ reMem(v.Value)

SchemaResources(r) ==
    /\ r.Kind = "MappingNode"
    /\ SchemaOptional(getMapValue(r, "limits"), SchemaQuantities)
    /\ SchemaOptional(getMapValue(r, "requests"), SchemaQuantities)

SchemaContainer(c) ==
    /\ c.Kind = "MappingNode"
    /\ getMapValue(c, "name").ok
    /\ IsStringNode(getMapValue(c, "name").node)
    /\ reSnake(getMapValue(c, "name").node.Value)
    /\ getMapValue(c, "image").ok
    /\ IsStringNode(getMapValue(c, "image").node)
    /\ SchemaImage(getMapValue(c, "image").node.Value)
    /\ LET ok(n) == n.Kind = "SequenceNode" /\ \A j \in 1..Len(n.Content) : SchemaPort(n.Content[j])
       IN  SchemaOptional(getMapValue(c, "ports"), ok)
    /\ SchemaOptional(getMapValue(c, "readinessProbe"), SchemaProbe)
    /\ SchemaOptional(getMapValue(c, "livenessProbe"), SchemaProbe)
    /\ getMapValue(c, "resources").ok
    /\ SchemaResources(getMapValue(c, "resources").node)

SchemaOS(n) ==
    \/ IsStringNode(n) /\ n.Value \in {"linux", "windows"}
    \/ /\ n.Kind = "MappingNode"
       /\ getMapValue(n, "name").ok
       /\ IsStringNode(getMapValue(n, "name").node)
       /\ getMapValue(n, "name").node.Value \in {"linux", "windows"}

SchemaSpec(sp) ==
    /\ sp.Kind = "MappingNode"
    /\ SchemaOptional(getMapValue(sp, "os"), SchemaOS)
    /\ getMapValue(sp, "containers").ok
    /\ LET cn == getMapValue(sp, "containers").node
       IN  /\ cn.Kind = "SequenceNode"
           /\ Len(cn.Content) >= 1
           /\ \A i \in 1..Len(cn.Content) : SchemaContainer(cn.Content[i])

SchemaMetadata(md) ==
    /\ md.Kind = "MappingNode"
    /\ getMapValue(md, "name").ok
    /\ IsStringNode(getMapValue(md, "name").node)
    /\ TrimSpace(getMapValue(md, "name").node.Value) # ""
    /\ SchemaOptional(getMapValue(md, "namespace"), IsStringNode)
    /\ LET ok(n) == n.Kind = "MappingNode" /\ \A j \in 1..Len(n.Content) : IsStringNode(n.Content[j])
       IN  SchemaOptional(getMapValue(md, "labels"), ok)

SchemaValid(doc) ==
    /\ doc.Kind = "MappingNode"
    /\ getMapValue(doc, "apiVersion").ok
    /\ IsStringNode(getMapValue(doc, "apiVersion").node)
    /\ getMapValue(doc, "apiVersion").node.Value = "v1"
    /\ getMapValue(doc, "kind").ok
    /\ IsStringNode(getMapValue(doc, "kind").node)
    /\ getMapValue(doc, "kind").node.Value = "Pod"
    /\ getMapValue(doc, "metadata").ok
    /\ SchemaMetadata(getMapValue(doc, "metadata").node)
    /\ getMapValue(doc, "spec").ok
    /\ SchemaSpec(getMapValue(doc, "spec").node)

\* C6. A manifest that meets every rule of the schema yields no violation and
\* exit code 0 under both policies.
C6_ValidManifestPasses ==
    (Validated /\ SchemaValid(DocNode)) =>
        /\ pcA = "done" => vA.out = <<>> /\ exitA = 0
        /\ pcF = "done" => errF = NoErr /\ outF = <<>> /\ exitF = 0

\* C7. Exit codes of both entry points: 2 after a usage error, an unreadable
\* file or a document that does not parse; otherwise 1 when at least one schema
\* violation was reported and 0 when none was.
C7_ExitCodes ==
    /\ pcA = "done" =>
          IF ~Validated THEN exitA = 2
          ELSE exitA = (IF vA.out # <<>> THEN 1 ELSE 0)
    /\ pcF = "done" =>
          IF ~Validated THEN exitF = 2
          ELSE exitF = (IF errF # NoErr THEN 1 ELSE 0)

\* The containers accumulate-all has validated so far.
ValidatedByA == {itemsA[i] : i \in 1..iA}

\* The value node of key under the mapping m as accumulate-all looks it up, in
\* a set: empty when m is no mapping or holds no such key.
Looked(m, key) == IF Has(mapify(m), key) THEN {mapify(m)[key]} ELSE {}

\* The port fields accumulate-all examines in container c, with their names.
PortFieldsA(c) ==
    {[n |-> n, f |-> "containerPort"] :
        n \in UNION {Looked(e, "containerPort") :
                        e \in UNION {{p.Content[j] : j \in 1..Len(p.Content)} :
                                        p \in {q \in Looked(c, "ports") : q.Kind = "SequenceNode"}}}}
        \cup {[n |-> n, f |-> "port"] :
                 n \in UNION {Looked(hg, "port") :
                                 hg \in UNION {Looked(pr, "httpGet") :
                                                  pr \in Looked(c, "readinessProbe")
                                                             \cup Looked(c, "livenessProbe")}}}

\* C8. A port field holding an integer p is reported as "<field> value out of
\* range" iff p <= 0 or p >= 65536, under both policies: in the accumulate-all
\* output for every such field of a validated container, and as the outcome of
\* the fail-fast check of every such field the pass examined.
C8_PortRange ==
    /\ \A c \in ValidatedByA : \A x \in PortFieldsA(c) :
          (x.n.Tag = "!!int" /\ Atoi(x.n.Value).ok) =>
              (PrintedByA(Printed(TRUE, x.n.Line, x.f \o " value out of range"))
                  <=> (Atoi(x.n.Value).val <= 0 \/ Atoi(x.n.Value).val >= 65536))
    /\ \A k \in 1..Len(seenF) :
          (/\ seenF[k].field \in {"containerPort", "port"}
           /\ seenF[k].ok /\ seenF[k].Kind = "ScalarNode" /\ seenF[k].Tag = "!!int"
           /\ Atoi(seenF[k].Value).ok) =>
              seenF[k].found =
                  IF Atoi(seenF[k].Value).val <= 0 \/ Atoi(seenF[k].Value).val >= 65536
                  THEN VErrAt(seenF[k].Line, seenF[k].field \o " value out of range")
                  ELSE NoErr

\* C8's case: containerPort 65536 rejected and 65535 accepted, a probe port 0
\* rejected; fail-fast stopped at the 65536.
C8_Witness ==
    /\ pcA = "done" /\ pcF = "done"
    /\ Len(itemsA) = 1
    /\ \E c \in ValidatedByA :
          /\ Has(mapify(c), "ports") /\ Len(mapify(c)["ports"].Content) = 2
          /\ \E n \in Looked(mapify(c)["ports"].Content[1], "containerPort") : n.Value = "65536"
          /\ \E n \in Looked(mapify(c)["ports"].Content[2], "containerPort") : n.Value = "65535"
          /\ vA.out = <<Printed(TRUE, mapify(c)["ports"].Content[1].Line,
                                "containerPort value out of range"),
                        Printed(TRUE, 32, "path has invalid format 'health'"),
                        Printed(TRUE, 33, "port value out of range")>>
          /\ errF = VErrAt(mapify(c)["ports"].Content[1].Line, "containerPort value out of range")
    /\ exitA = 1 /\ exitF = 1

\* The limits and requests maps accumulate-all examines in container c.
QuantityMapsA(c) ==
    UNION {Looked(r, "limits") \cup Looked(r, "requests") : r \in Looked(c, "resources")}

\* C9. A string-tagged memory value is accepted iff it matches
\* ^[0-9]+(Gi|Mi|Ki)$, and is otherwise reported as "memory has invalid format
\* '<s>'", under both policies.
C9_MemoryFormat ==
    /\ \A c \in ValidatedByA : \A m \in QuantityMapsA(c) : \A n \in Looked(m, "memory") :
          n.Tag = "!!str" =>
              (PrintedByA(Printed(TRUE, n.Line, "memory has invalid format '" \o n.Value \o "'"))
                  <=> ~reMem(n.Value))
    /\ \A k \in 1..Len(seenF) :
          (seenF[k].field = "memory" /\ seenF[k].Kind = "ScalarNode" /\ seenF[k].Tag = "!!str") =>
              seenF[k].found =
                  IF reMem(seenF[k].Value) THEN NoErr
                  ELSE VErrAt(seenF[k].Line,
                              "memory has invalid format '" \o seenF[k].Value \o "'")

\* C10. A string-tagged container name is accepted iff it matches
\* ^[a-z0-9]+(_[a-z0-9]+)*$, and is otherwise reported as "name has invalid
\* format '<s>'" at the name's line, under both policies: isSnakeCase decides
\* every name the fail-fast pass examines as the pattern does.
C10_NameFormat ==
    /\ \A c \in ValidatedByA : \A n \in Looked(c, "name") :
          n.Tag = "!!str" =>
              (PrintedByA(Printed(TRUE, n.Line, "name has invalid format '" \o n.Value \o "'"))
                  <=> ~reSnake(n.Value))
    /\ \A k \in 1..Len(seenF) :
          (/\ seenF[k].field = "name"
           /\ seenF[k].ok /\ seenF[k].Kind = "ScalarNode" /\ seenF[k].Tag = "!!str") =>
              seenF[k].found =
                  IF reSnake(seenF[k].Value) THEN NoErr
                  ELSE VErrAt(seenF[k].Line,
                              "name has invalid format '" \o seenF[k].Value \o "'")

(***************************************************************************)
(* The field accessor of spec.md, section 4.1.                             *)
(***************************************************************************)
\* The value paired with the first scalar key equal to key, in a set: empty
\* when n is no mapping or holds no such key.
FirstMatch(n, key) ==
    IF n.Kind # "MappingNode" THEN {}
    ELSE LET hits == {i \in 1..(Len(n.Content) \div 2) :
                         /\ n.Content[2 * i - 1].Kind = "ScalarNode"
                         /\ n.Content[2 * i - 1].Value = key}
         IN  IF hits = {} THEN {}
             ELSE {n.Content[2 * (CHOOSE i \in hits : \A j \in hits : i <= j)]}

\* Every node of the tree under n, n included.
RECURSIVE Nodes(_)
Nodes(n) == {n} \cup UNION {Nodes(n.Content[j]) : j \in 1..Len(n.Content)}

\* The keys the validators look up.
FieldNames ==
    {"apiVersion", "kind", "metadata", "spec", "name", "namespace", "labels", "os",
     "containers", "image", "ports", "readinessProbe", "livenessProbe", "resources",
     "containerPort", "protocol", "httpGet", "path", "port", "limits", "requests",
     "cpu", "memory"}

\* C11. For every node of a validated tree and every field name, both accessors
\* (the mapify lookup of accumulate-all, getMapValue of fail-fast) find nothing
\* in a non-mapping node and otherwise exactly the value paired with the first
\* scalar key equal to the name: with a key given twice the first value is the
\* one looked up, and a non-scalar key never matches.
C11_FirstMatchWins ==
    (Validated /\ pcA = "done" /\ pcF = "done") =>
        \A n \in Nodes(file.root) : \A key \in FieldNames :
            /\ Looked(n, key) = FirstMatch(n, key)
            /\ getMapValue(n, key).ok <=> FirstMatch(n, key) # {}
            /\ getMapValue(n, key).ok => getMapValue(n, key).node \in FirstMatch(n, key)

\* C12. Under both policies a metadata name that is a string yields a violation
\* for name iff it is empty or white space only: accumulate-all prints
\* "name is required" at the name's line exactly then, and the fail-fast check
\* of metadata.name ends with an error exactly then.
C12_BlankMetadataName ==
    Validated =>
        \A md \in FirstMatch(DocNode, "metadata") : \A n \in FirstMatch(md, "name") :
            (n.Kind = "ScalarNode" /\ n.Tag = "!!str") =>
                /\ pcA = "done" =>
                      (PrintedByA(Printed(TRUE, n.Line, "name is required"))
                          <=> TrimSpace(n.Value) = "")
                /\ \A k \in 1..Len(seenF) :
                      seenF[k].field = "metadata.name" =>
                          ((seenF[k].found # NoErr) <=> TrimSpace(n.Value) = "")

=============================================================================
